---- MODULE Spec2Model ----
(***************************************************************************)
(* Model of the OpenCode WorkTrunk plugin (src/index.ts).                  *)
(*                                                                         *)
(* The plugin is a closure over four variables (currentBranch,             *)
(* statusTimer, branchCheckInterval, lastKnownBranch) run by a             *)
(* single-threaded event loop.  Every `await` of an external invocation    *)
(* is a point where other callbacks may run, so each handler is cut into   *)
(* one action per segment between two awaits.  An external invocation is   *)
(* issued by the segment that reaches it and answered by the environment   *)
(* when the next segment of the same handler runs.                         *)
(*                                                                         *)
(* Time is kept only for the debounce timeout.  A due timeout runs before  *)
(* any callback that became ready later, so no other step is taken while   *)
(* a debounce timeout is due.  The 100 ms start-up timeout and the 2000 ms *)
(* poll interval fire at times chosen by the environment.                  *)
(***************************************************************************)
EXTENDS Integers, Sequences, FiniteSets, TLC

(* ---------------------------------------------------------------------- *)
(* Bounds                                                                  *)
(* ---------------------------------------------------------------------- *)
\* events delivered in one behaviour
MaxEvents == 2
\* tool calls started in one behaviour
MaxToolCalls == 2
\* events delivered in one behaviour in which the poller's progress is observed
MaxPollEvents == 1
\* tool calls started in one behaviour in which their return is observed
MaxAwaitedCalls == 2

(* ---------------------------------------------------------------------- *)
(* Program constants and vocabulary                                        *)
(* ---------------------------------------------------------------------- *)
DebounceDelay == 200
\* granularity of the clock
TimeStep == DebounceDelay \div 2

NULL == "<null>"
\* the value of statusTimer before the first setTimeout; handles are positive
NoTimer == 0
WorkMarker == "work-marker"
WaitMarker == "wait-marker"
Markers == {WorkMarker, WaitMarker, NULL}

Branches == {"main", "feat/x"}
\* values the host may pass as a branch argument
BranchArgs == Branches \cup {"@", "bad name", "x#y"}
\* values the host may pass as the optional base argument
BaseArgs == {NULL, "@", "main"}
\* the characters of every branch argument
NameChars ==
  [ b \in BranchArgs \cup {"-"} |->
      CASE b = "main"     -> <<"m", "a", "i", "n">>
        [] b = "-"        -> <<"-">>
        [] b = "feat/x"   -> <<"f", "e", "a", "t", "/", "x">>
        [] b = "@"        -> <<"@">>
        [] b = "bad name" -> <<"b", "a", "d", " ", "n", "a", "m", "e">>
        [] b = "x#y"      -> <<"x", "#", "y">> ]

Statuses == {"working", "thinking", "waiting", "idle", "error", NULL}
EventTypes == {"session.status", "session.created", "session.idle",
               "session.error", "message.updated"}

Range(s) == {s[i] : i \in DOMAIN s}
Contains(text, piece) == piece \in Range(text)
Min(a, b) == IF a < b THEN a ELSE b
Max(a, b) == IF a > b THEN a ELSE b

(* ---------------------------------------------------------------------- *)
(* Output of external commands                                             *)
(* ---------------------------------------------------------------------- *)
IsSpace(c) == c \in {" ", "\n"}

RECURSIVE TrimStart(_)
TrimStart(s) ==
  IF s # <<>> /\ IsSpace(Head(s)) THEN TrimStart(Tail(s)) ELSE s

RECURSIVE TrimEnd(_)
TrimEnd(s) ==
  IF s # <<>> /\ IsSpace(s[Len(s)]) THEN TrimEnd(SubSeq(s, 1, Len(s) - 1)) ELSE s

\* String.prototype.trim on a text given as its pieces
Trim(s) == TrimEnd(TrimStart(s))

\* what `git rev-parse --abbrev-ref HEAD` answers when the checked-out
\* branch is `head` (NULL: no repository or no branch)
GitAnswers(head) ==
  IF head = NULL
  THEN {[ok |-> FALSE, out |-> <<>>], [ok |-> TRUE, out |-> <<"\n">>],
        [ok |-> TRUE, out |-> <<>>]}
  ELSE {[ok |-> TRUE, out |-> <<head, "\n">>]}

\* what a `wt` command can answer
WtOutputs == {<<>>, <<"\n">>, <<" ", "main", "\n">>}
\* messages of the errors a failed `wt` command can throw
WtErrors == {<<"exit code 1">>, <<"branch ", "already exists">>,
             <<"worktree ", "not found">>}
WtAnswers ==
  {[ok |-> TRUE, out |-> o, err |-> <<>>] : o \in WtOutputs}
    \cup {[ok |-> FALSE, out |-> <<>>, err |-> e] : e \in WtErrors}

\* getCurrentBranch applied to the answer of git
getCurrentBranch(ans) ==
  IF ~ans.ok THEN NULL
  ELSE LET t == Trim(ans.out) IN IF t = <<>> THEN NULL ELSE t[1]

(* ---------------------------------------------------------------------- *)
(* Command lines                                                           *)
(* ---------------------------------------------------------------------- *)
VersionCmd == <<"wt", "--version">>
GitCmd == <<"git", "rev-parse", "--abbrev-ref", "HEAD">>
MarkerText(marker) == IF marker = NULL THEN "" ELSE marker
MarkerCmdAlwaysClears(marker, branch) ==
  <<"wt", "config", "state", "marker", "set", "", "--branch", branch>>

\* the command line that sets (or, with no marker, clears) the marker of a branch
MarkerCmd(marker, branch) ==
  <<"wt", "config", "state", "marker", "set", MarkerText(marker), "--branch", branch>>

IsMarkerCmd(c) == Len(c) = 8 /\ SubSeq(c, 1, 5) = <<"wt", "config", "state", "marker", "set">>

VARIABLES
  currentBranch,        \* the branch cache
  lastKnownBranch,      \* the value the poller compares with
  statusTimer,          \* handle of the last debounce timeout, or NoTimer
  branchCheckInterval,  \* handle of the poll interval, or NULL
  timers,               \* debounce timeouts scheduled and not yet run
  markers,              \* runs of setStatusMarker in flight
  polls,                \* whether runs of checkBranchChange await git
  init,                 \* the deferred initialization
  call,                 \* the tool call in flight, or Idle
  gitHead,              \* the branch checked out in the plugin's directory, or NULL
  updates,              \* the calls of updateStatus of the unfinished bursts
  nupd,                 \* calls of updateStatus so far
  lastBurst,            \* the burst of the newest call of updateStatus
  sinceLast,            \* time since the last call of updateStatus
  nevents,              \* events delivered so far
  ntools,               \* tool calls started so far
  nIntervals,           \* calls of setInterval so far
  lastRemoved           \* branch whose removal last cleared the cache

vars == <<currentBranch, lastKnownBranch, statusTimer, branchCheckInterval,
          timers, markers, polls, init, call, gitHead, updates, nupd, lastBurst, sinceLast,
          nevents, ntools, nIntervals, lastRemoved>>

cacheVars == <<currentBranch, lastKnownBranch>>
debounceVars == <<statusTimer, timers, updates, sinceLast, nupd, lastBurst>>

\* no tool call is in flight
NoArgs == [branch |-> NULL, base |-> NULL, skipHooks |-> FALSE, format |-> NULL,
           full |-> FALSE, branches |-> FALSE, marker |-> NULL]
\* vok, cok: how `wt --version` and the tool's own `wt` command were answered
Idle == [tool |-> NULL, args |-> NoArgs, pc |-> "idle", cmds |-> <<>>, val |-> NULL,
         out |-> <<>>, hit |-> NULL, vok |-> "?", cok |-> "?", res |-> <<>>]

Init ==
  /\ currentBranch = NULL
  /\ lastKnownBranch = NULL
  /\ statusTimer = NoTimer
  /\ branchCheckInterval = NULL
  /\ timers = {}
  /\ markers = {}
  /\ polls = FALSE
  /\ init = "timer"
  /\ call = Idle
  /\ gitHead \in Branches \cup {NULL}
  /\ updates = {}
  /\ nupd = 0
  /\ lastBurst = 0
  /\ sinceLast = DebounceDelay
  /\ nevents = 0
  /\ ntools = 0
  /\ nIntervals = 0
  /\ lastRemoved = NULL

\* a debounce timeout has reached its delay and has not run yet
Due == \E t \in timers : t.remaining = 0

\* A tool call that has produced its result returns to the host before any
\* other callback runs, and a due timeout runs before any other callback.
Returning == call.pc = "done"
\* A promise that was rejected with no handler is reported when the
\* microtasks have drained, before the next callback runs.
Rejecting == \E m \in markers : m.pc = "rejected"
Busy == Due \/ Returning \/ Rejecting

(* ---------------------------------------------------------------------- *)
(* Debounced status update                                                 *)
(* ---------------------------------------------------------------------- *)
\* Record of the calls of updateStatus: one entry per call, grouped in
\* bursts.  A call opens a new burst when the previous call is at least
\* DebounceDelay old.  An entry whose timeout was cleared keeps no marker.
Terminal(u) == u.fate \in {"cancelled", "skipped", "invoked"}

Settle(us, ts) ==
  {IF u.fate = "pending" /\ ~(\E t \in ts : t.id = u.id)
   THEN [u EXCEPT !.fate = "cancelled", !.marker = NULL]
   ELSE u : u \in us}

NewBurst == nupd = 0 \/ sinceLast >= DebounceDelay

\* the entries of the bursts that still have a timeout or a run outstanding
Unfinished(us) ==
  {u \in us : \E v \in us : v.burst = u.burst /\ ~Terminal(v)}

Recorded(us, ts, id, marker) ==
  LET settled == Settle(us, ts \ {t \in ts : t.id = id})
      b == IF NewBurst THEN id ELSE lastBurst
  IN (IF NewBurst THEN Unfinished(settled) ELSE settled)
       \cup {[id |-> id, burst |-> b, marker |-> marker, fate |-> "pending",
              gitval |-> "?", sent |-> "-", target |-> "?"]}

updateStatusNoClear(marker) ==
  LET id == nupd + 1
      ts == timers \cup {[id |-> id, marker |-> marker, remaining |-> DebounceDelay]}
  IN /\ timers' = ts
     /\ statusTimer' = id
     /\ nupd' = id
     /\ updates' = Recorded(updates, ts, id, marker)
     /\ lastBurst' = IF NewBurst THEN id ELSE lastBurst
     /\ sinceLast' = 0

\* updateStatus: clear the outstanding timeout, schedule a new one
updateStatus(marker) ==
  LET id   == nupd + 1
      kept == IF statusTimer # NoTimer THEN {t \in timers : t.id # statusTimer} ELSE timers
      ts   == kept \cup {[id |-> id, marker |-> marker, remaining |-> DebounceDelay]}
  IN /\ timers' = ts
     /\ statusTimer' = id
     /\ nupd' = id
     /\ updates' = Recorded(updates, ts, id, marker)
     /\ lastBurst' = IF NewBurst THEN id ELSE lastBurst
     /\ sinceLast' = 0

\* the clock advances by one step
Tick ==
  /\ ~Busy
  /\ timers # {} \/ sinceLast < DebounceDelay
  /\ timers' = {[t EXCEPT !.remaining = Max(0, t.remaining - TimeStep)] : t \in timers}
  /\ sinceLast' = Min(DebounceDelay, sinceLast + TimeStep)
  /\ UNCHANGED <<cacheVars, statusTimer, branchCheckInterval, markers, polls, init,
                 call, updates, nupd, lastBurst, nevents, ntools, nIntervals,
                 lastRemoved, gitHead>>

\* the branch checked out changes outside the plugin; an invocation of git
\* reads it when it completes
ExternalCheckout ==
  /\ ~Busy
  /\ \E g \in (Branches \cup {NULL}) \ {gitHead} : gitHead' = g
  /\ UNCHANGED <<cacheVars, debounceVars, branchCheckInterval, markers, polls, init,
                 call, nevents, ntools, nIntervals, lastRemoved>>

(* ---------------------------------------------------------------------- *)
(* Event hook                                                              *)
(* ---------------------------------------------------------------------- *)
StatusMarkerIdleClears(status) ==
  IF status \in {"working", "thinking"} THEN WorkMarker
  ELSE IF status = "waiting" THEN WaitMarker
  ELSE NULL

\* the marker the session.status case passes to updateStatus
StatusMarker(status) ==
  IF status = "working" \/ status = "thinking" THEN WorkMarker
  ELSE IF status = "waiting" \/ status = "idle" THEN WaitMarker
  ELSE NULL

Handled(type) ==
  type \in {"session.status", "session.created", "session.idle", "session.error"}

\* an event hook for which an idle session shows the wait marker
EventMarkerIdleWaits(type, status) ==
  CASE type = "session.status"  -> StatusMarker(status)
    [] type = "session.created" -> WaitMarker
    [] type = "session.idle"    -> WaitMarker
    [] type = "session.error"   -> NULL

\* the marker the event hook passes to updateStatus for a handled event
EventMarker(type, status) ==
  CASE type = "session.status"  -> StatusMarker(status)
    [] type = "session.created" -> WaitMarker
    [] type = "session.idle"    -> NULL
    [] type = "session.error"   -> NULL


\* an event hook whose default case clears the pending timeout
EventOfDefaultClears(type, status) ==
  /\ ~Busy
  /\ nevents < MaxEvents
  /\ nevents' = nevents + 1
  /\ IF Handled(type)
     THEN updateStatus(EventMarker(type, status))
     ELSE /\ timers' = {t \in timers : t.id # statusTimer}
          /\ updates' = Settle(updates, timers')
          /\ UNCHANGED <<statusTimer, sinceLast, nupd, lastBurst>>
  /\ UNCHANGED <<cacheVars, branchCheckInterval, markers, polls, init, call,
                 ntools, nIntervals, lastRemoved, gitHead>>

\* the event hook applied to one event
EventOf(type, status) ==
  /\ ~Busy
  /\ nevents < MaxEvents
  /\ nevents' = nevents + 1
  /\ IF Handled(type)
     THEN updateStatus(EventMarker(type, status))
     ELSE UNCHANGED debounceVars
  /\ UNCHANGED <<cacheVars, branchCheckInterval, markers, polls, init, call,
                 ntools, nIntervals, lastRemoved, gitHead>>

\* the host delivers one event
Event ==
  \E type \in EventTypes :
    \E status \in (IF type = "session.status" THEN Statuses ELSE {NULL}) :
      EventOf(type, status)

(* ---------------------------------------------------------------------- *)
(* setStatusMarker, started by the debounce timeout                        *)
(* ---------------------------------------------------------------------- *)
Truthy(x) == x # NULL /\ x # ""

\* the timeout callback: setStatusMarker runs up to its await of git
DebounceFire ==
  /\ ~Returning
  /\ \E t \in timers :
       /\ t.remaining = 0
       /\ timers' = timers \ {t}
       /\ markers' = markers \cup
            {[id |-> t.id, marker |-> t.marker, pc |-> "git",
              had |-> Truthy(currentBranch)]}
       /\ updates' = {IF u.id = t.id THEN [u EXCEPT !.fate = "running"] ELSE u : u \in updates}
  /\ UNCHANGED <<cacheVars, statusTimer, branchCheckInterval, polls, init, call,
                 sinceLast, nupd, lastBurst, nevents, ntools, nIntervals, lastRemoved, gitHead>>


\* a refresh that always takes the answer of git
RefreshedBranchStrict(had, val) == val

\* the cache after setStatusMarker has the answer of git
RefreshedBranch(had, val) ==
  IF ~had THEN val
  ELSE IF val # currentBranch /\ val # NULL THEN val ELSE currentBranch

\* a refresh that leaves lastKnownBranch behind when the cache held a branch
RefreshedLastKnownStale(had, val) ==
  IF ~had THEN val ELSE lastKnownBranch

RefreshedLastKnown(had, val) ==
  IF ~had THEN val
  ELSE IF val # currentBranch /\ val # NULL THEN val ELSE lastKnownBranch

\* an update that, with a branch in the cache, sets the marker of that branch
\* whatever git answers
MarkerAfterGitCachedTarget ==
  /\ ~Busy
  /\ \E m \in markers, ans \in GitAnswers(gitHead) :
       LET val == getCurrentBranch(ans)
           old == currentBranch
       IN /\ m.pc = "git"
          /\ currentBranch' = RefreshedBranch(m.had, val)
          /\ lastKnownBranch' = RefreshedLastKnown(m.had, val)
          /\ IF ~Truthy(currentBranch')
             THEN /\ markers' = markers \ {m}
                  /\ updates' = {IF u.id = m.id
                                  THEN [u EXCEPT !.fate = "skipped", !.gitval = val]
                                  ELSE u : u \in updates}
             ELSE /\ markers' = (markers \ {m}) \cup
                                 {[m EXCEPT !.pc = "wt", !.had = TRUE]}
                  /\ updates' = {IF u.id = m.id
                                  THEN [u EXCEPT !.fate = "invoked", !.gitval = val,
                                                 !.sent = MarkerCmd(m.marker, currentBranch')[6],
                                                 !.target = IF Truthy(old) THEN old
                                                            ELSE currentBranch']
                                  ELSE u : u \in updates}
  /\ UNCHANGED <<statusTimer, timers, branchCheckInterval, polls, init, call,
                 sinceLast, nupd, lastBurst, nevents, ntools, nIntervals,
                 lastRemoved, gitHead>>

\* git has answered: refresh the cache, then issue the marker command for
\* the cached branch.  `had` tells whether the run saw a branch in the cache
\* when it last looked: at the test before the await of git, and at the test
\* before the marker command.
MarkerAfterGit ==
  /\ ~Busy
  /\ \E m \in markers, ans \in GitAnswers(gitHead) :
       LET val == getCurrentBranch(ans)
       IN /\ m.pc = "git"
          /\ currentBranch' = RefreshedBranch(m.had, val)
          /\ lastKnownBranch' = RefreshedLastKnown(m.had, val)
          /\ IF ~Truthy(currentBranch')
             THEN /\ markers' = markers \ {m}
                  /\ updates' = {IF u.id = m.id
                                  THEN [u EXCEPT !.fate = "skipped", !.gitval = val]
                                  ELSE u : u \in updates}
             ELSE /\ markers' = (markers \ {m}) \cup
                                 {[m EXCEPT !.pc = "wt", !.had = TRUE]}
                  /\ updates' = {IF u.id = m.id
                                  THEN [u EXCEPT !.fate = "invoked", !.gitval = val,
                                                 !.sent = MarkerCmd(m.marker, currentBranch')[6],
                                                 !.target = MarkerCmd(m.marker, currentBranch')[8]]
                                  ELSE u : u \in updates}
  /\ UNCHANGED <<statusTimer, timers, branchCheckInterval, polls, init, call,
                 sinceLast, nupd, lastBurst, nevents, ntools, nIntervals,
                 lastRemoved, gitHead>>

\* the marker command has answered: done, or log its failure
MarkerAfterWt ==
  /\ ~Busy
  /\ \E m \in markers :
       /\ m.pc = "wt"
       /\ \E ok \in BOOLEAN :
            markers' = IF ok THEN markers \ {m}
                       ELSE (markers \ {m}) \cup {[m EXCEPT !.pc = "log"]}
  /\ UNCHANGED <<cacheVars, debounceVars, branchCheckInterval, polls, init, call,
                 nevents, ntools, nIntervals, lastRemoved, gitHead>>

\* client.app.log has answered: when it resolves setStatusMarker ends; when
\* it rejects, the rejection leaves the catch block and setStatusMarker's
\* promise rejects
MarkerAfterLog ==
  /\ ~Busy
  /\ \E m \in markers, logged \in BOOLEAN :
       /\ m.pc = "log"
       /\ markers' = IF logged THEN markers \ {m}
                     ELSE (markers \ {m}) \cup {[m EXCEPT !.pc = "rejected"]}
  /\ UNCHANGED <<cacheVars, debounceVars, branchCheckInterval, polls, init, call,
                 nevents, ntools, nIntervals, lastRemoved, gitHead>>

\* the timer callback drops the promise of setStatusMarker: a rejection of
\* it has no handler and is delivered to the host as an unhandled rejection
UnhandledRejection ==
  /\ \E m \in markers :
       /\ m.pc = "rejected"
       /\ markers' = markers \ {m}
  /\ UNCHANGED <<cacheVars, debounceVars, branchCheckInterval, polls, init, call,
                 nevents, ntools, nIntervals, lastRemoved, gitHead>>

(* ---------------------------------------------------------------------- *)
(* Branch poller                                                           *)
(* ---------------------------------------------------------------------- *)
\* a poller that has to be re-armed after every run, and is not
PollTickOneShot ==
  /\ ~Busy
  /\ branchCheckInterval # NULL
  /\ polls' = TRUE
  /\ branchCheckInterval' = NULL
  /\ UNCHANGED <<cacheVars, debounceVars, markers, init, call,
                 nevents, ntools, nIntervals, lastRemoved, gitHead>>

\* the interval callback: checkBranchChange runs up to its await of git
PollTick ==
  /\ ~Busy
  /\ branchCheckInterval # NULL
  /\ polls' = TRUE
  /\ UNCHANGED <<cacheVars, debounceVars, branchCheckInterval, markers, init, call,
                 nevents, ntools, nIntervals, lastRemoved, gitHead>>

\* a poller that forgets the cached branch when git reports another one,
\* where the code adopts the reported branch
PollAfterGitForgets ==
  /\ ~Busy
  /\ polls
  /\ \E ans \in GitAnswers(gitHead), more \in BOOLEAN :
       LET newBranch == getCurrentBranch(ans)
       IN /\ IF newBranch # lastKnownBranch
             THEN /\ currentBranch' = NULL
                  /\ lastKnownBranch' = NULL
             ELSE UNCHANGED cacheVars
          /\ polls' = more
  /\ UNCHANGED <<debounceVars, branchCheckInterval, markers, init, call,
                 nevents, ntools, nIntervals, lastRemoved, gitHead>>

\* git has answered one run of checkBranchChange: update the cache and log
\* the change.  Nothing follows the await of the log call.  Any number of
\* runs can await git at once: `more` tells whether another one still does.
PollAfterGit ==
  /\ ~Busy
  /\ polls
  /\ \E ans \in GitAnswers(gitHead), more \in BOOLEAN :
       LET newBranch == getCurrentBranch(ans)
       IN /\ IF newBranch # lastKnownBranch /\ newBranch # NULL
             THEN /\ currentBranch' = newBranch
                  /\ lastKnownBranch' = newBranch
             ELSE UNCHANGED cacheVars
          /\ polls' = more
  /\ UNCHANGED <<debounceVars, branchCheckInterval, markers, init, call,
                 nevents, ntools, nIntervals, lastRemoved, gitHead>>

(* ---------------------------------------------------------------------- *)
(* Deferred initialization                                                 *)
(* ---------------------------------------------------------------------- *)
PollHandle == "interval"

\* the start-up timeout runs: initialization up to its await of git
InitFire ==
  /\ ~Busy
  /\ init = "timer"
  /\ init' = "git"
  /\ UNCHANGED <<cacheVars, debounceVars, branchCheckInterval, markers, polls, call,
                 nevents, ntools, nIntervals, lastRemoved, gitHead>>


\* an initialization that starts the poller whatever git reports
InitAfterGitAlwaysPolls ==
  /\ ~Busy
  /\ init = "git"
  /\ \E ans \in GitAnswers(gitHead) :
       LET val == getCurrentBranch(ans)
       IN /\ currentBranch' = val
          /\ lastKnownBranch' = val
          /\ branchCheckInterval' = PollHandle
          /\ nIntervals' = nIntervals + 1
  /\ init' = "done"
  /\ UNCHANGED <<debounceVars, markers, polls, call, nevents, ntools, lastRemoved, gitHead>>

\* git has answered: set the cache, start the poller, log.  Nothing but
\* logging follows the await of the log call.
InitAfterGit ==
  /\ ~Busy
  /\ init = "git"
  /\ \E ans \in GitAnswers(gitHead) :
       LET val == getCurrentBranch(ans)
       IN /\ currentBranch' = val
          /\ lastKnownBranch' = val
          /\ IF Truthy(val)
             THEN /\ branchCheckInterval' = PollHandle
                  /\ nIntervals' = nIntervals + 1
             ELSE UNCHANGED <<branchCheckInterval, nIntervals>>
  /\ init' = "done"
  /\ UNCHANGED <<debounceVars, markers, polls, call, nevents, ntools, lastRemoved, gitHead>>

(* ---------------------------------------------------------------------- *)
(* Tools: arguments, command lines and result texts                        *)
(* ---------------------------------------------------------------------- *)
Tools == {"list", "switch", "status", "status-update", "create", "remove",
          "default-branch"}

\* the arguments the host may pass to each tool
ToolArgs(tool) ==
  CASE tool = "list" ->
         {[NoArgs EXCEPT !.format = f, !.full = fu, !.branches = br] :
            f \in {NULL, "json", "text"}, fu \in BOOLEAN, br \in BOOLEAN}
    [] tool = "switch" ->
         {[NoArgs EXCEPT !.branch = b] : b \in Branches \cup {"@", "-"}}
    [] tool = "status-update" ->
         {[NoArgs EXCEPT !.marker = m, !.branch = b] :
            m \in {WorkMarker, ""}, b \in {NULL, "@", "main", "x#y"}}
    [] tool = "create" ->
         {[NoArgs EXCEPT !.branch = b, !.base = ba] : b \in BranchArgs, ba \in BaseArgs}
           \cup {[NoArgs EXCEPT !.branch = b, !.skipHooks = TRUE] : b \in BranchArgs}
    [] tool = "remove" ->
         {[NoArgs EXCEPT !.branch = b] : b \in Branches \cup {"@"}}
    [] OTHER -> {NoArgs}

\* the characters matched by [@\w\/\-\.]
WordChars == {"a", "b", "d", "e", "f", "i", "m", "n", "t", "x", "y", "_", "0", "9"}
AllowedChars == WordChars \cup {"@", "/", "-", "."}

\* /^[@\w\/\-\.]+$/.test(branch)
MatchesPattern(branch) ==
  /\ NameChars[branch] # <<>>
  /\ \A i \in DOMAIN NameChars[branch] : NameChars[branch][i] \in AllowedChars

ValidBranchNameLax(branch) == TRUE

\* the test of worktrunk-create that lets a branch name through
ValidBranchName(branch) ==
  ~(Truthy(branch) /\ ~MatchesPattern(branch) /\ branch # "@")

ListCmdNoFull(args) ==
  LET format == IF Truthy(args.format) THEN args.format ELSE "text"
  IN <<"wt", "list">>
       \o (IF format = "json" THEN <<"--format=json">> ELSE <<>>)
       \o (IF args.branches THEN <<"--branches">> ELSE <<>>)

\* the command line of worktrunk-list
ListCmd(args) ==
  LET format == IF Truthy(args.format) THEN args.format ELSE "text"
  IN <<"wt", "list">>
       \o (IF format = "json" THEN <<"--format=json">> ELSE <<>>)
       \o (IF args.full THEN <<"--full">> ELSE <<>>)
       \o (IF args.branches THEN <<"--branches">> ELSE <<>>)

SwitchCmd(branch) == <<"wt", "switch", branch>>

CreateCmdAlwaysBase(branch, base) ==
  <<"wt", "switch", "--create", branch, "--base=", MarkerText(base)>>

\* the command line of worktrunk-create
CreateCmd(branch, base) ==
  IF Truthy(base)
  THEN <<"wt", "switch", "--create", branch, "--base=", base>>
  ELSE <<"wt", "switch", "--create", branch>>

StatusCmd(branch) == <<"wt", "list", "--branch", branch>>
RemoveCmd(branch) == <<"wt", "remove", branch>>
DefaultBranchCmd == <<"wt", "config", "state", "default-branch">>

NotInstalledMsg ==
  <<"Error:", " WorkTrunk is ", "not installed",
    ". Please install it from https://worktrunk.dev/install">>
NotInRepoMsg ==
  <<"Not in a git repository or no branch detected.", "\n\nTroubleshooting:">>
InvalidNameMsg(branch) ==
  <<"Error:", " ", "Invalid branch name", " '", branch,
    "'. Branch names should only contain letters, numbers, slashes, hyphens, dots, or '@' for current branch.">>
ListErrorMsg(err) ==
  <<"Error", " running 'wt list': ">> \o err \o <<"\n\nTroubleshooting:">>
SwitchOkMsg(branch, out) == <<"Switched to branch: ", branch, "\n">> \o out
SwitchErrorMsg(branch, err) ==
  <<"Error", " switching to branch '", branch, "': ">> \o err \o <<"\n\nTroubleshooting:">>
\* an error text of worktrunk-status that starts with the message caught
StatusErrorMsgBare(err) == err \o <<" (", "Error", " getting WorkTrunk status)">>

StatusErrorMsg(err) == <<"Error", " getting WorkTrunk status: ">> \o err
UpdatedMsg(target, marker) ==
  <<"Updated status marker for branch '", target, "': ",
    IF Truthy(marker) THEN marker ELSE "(cleared)">>
UpdateErrorMsg(err) == <<"Error", " updating status marker: ">> \o err
CreatedMsg(branch, base, out) ==
  IF Truthy(base)
  THEN <<"Created and switched to branch: ", branch, " (from ",
         IF base = "@" THEN "current HEAD" ELSE base, ")", "\n">> \o out
  ELSE <<"Created and switched to branch: ", branch, "\n">> \o out
CreateErrorMsg(branch, err) ==
  IF Contains(err, "already exists")
  THEN <<"Error:", " Branch '", branch,
         "' already exists. Use worktrunk-switch to switch to it, or choose a different name.">>
  ELSE <<"Error", " creating worktree for branch '", branch, "': ">> \o err
RemovedMsg(branch, out) == <<"Removed worktree: ", branch, "\n">> \o out
RemoveErrorMsg(branch, err) ==
  IF Contains(err, "not found") \/ Contains(err, "does not exist")
  THEN <<"Error:", " Worktree '", branch,
         "' not found. Use 'worktrunk-list' to see available worktrees.">>
  ELSE <<"Error", " removing worktree '", branch, "': ">> \o err
UnableMsg ==
  <<"Unable to determine default branch",
    ". WorkTrunk may not be initialized in this repository.">>
DefaultErrorMsg(err) ==
  <<"Error", " getting default branch: ">> \o err \o <<"\n\nTroubleshooting:">>

Done(c, res) == [c EXCEPT !.pc = "done", !.res = res]
Issue(c, cmd) == [c EXCEPT !.pc = "cmd", !.cmds = Append(@, cmd)]
IssueGit(c) == [c EXCEPT !.pc = "git", !.cmds = Append(@, GitCmd)]
\* the call once git has answered getCurrentBranch
Got(c, ans) == [c EXCEPT !.val = getCurrentBranch(ans)]

\* isWorkTrunkInstalled applied to the answer of `wt --version`
isWorkTrunkInstalled(ans) == ans.ok

Answered(ans) == IF ans.ok THEN "ok" ELSE "failed"
\* the call once `wt --version` has answered
Checked(c, ans) == [c EXCEPT !.vok = Answered(ans)]
\* the call once its own `wt` command has answered
Ran(c, ans) == [c EXCEPT !.cok = Answered(ans), !.out = ans.out]

allButCall == <<cacheVars, debounceVars, branchCheckInterval, markers, polls, init,
                nevents, ntools, nIntervals, lastRemoved, gitHead>>
allButCallCache == <<debounceVars, branchCheckInterval, markers, polls, init,
                     nevents, ntools, nIntervals, lastRemoved, gitHead>>
allButCallCacheDebounce == <<branchCheckInterval, markers, polls, init,
                             nevents, ntools, nIntervals, lastRemoved, gitHead>>

\* the host calls a tool: execute runs up to its await of `wt --version`
StartCall ==
  /\ ~Busy
  /\ call.pc = "idle"
  /\ ntools < MaxToolCalls
  /\ ntools' = ntools + 1
  /\ \E tool \in Tools :
       \E args \in ToolArgs(tool) :
         call' = [Idle EXCEPT !.tool = tool, !.args = args, !.pc = "version",
                              !.cmds = <<VersionCmd>>]
  /\ UNCHANGED <<cacheVars, debounceVars, branchCheckInterval, markers, polls, init,
                 nevents, nIntervals, lastRemoved, gitHead>>

\* the result reaches the host
Return ==
  /\ call.pc = "done"
  /\ call' = Idle
  /\ lastRemoved' = IF call.tool = "remove" THEN lastRemoved ELSE NULL
  /\ UNCHANGED <<cacheVars, debounceVars, branchCheckInterval, markers, polls, init,
                 nevents, ntools, nIntervals, gitHead>>

(* ---------------------------------------------------------------------- *)
(* worktrunk-list                                                          *)
(* ---------------------------------------------------------------------- *)
\* a version check that is repeated once when it fails
ListAfterVersionRetry ==
  /\ ~Busy
  /\ call.tool = "list" /\ call.pc = "version"
  /\ \E ans \in WtAnswers :
       call' = IF isWorkTrunkInstalled(ans) THEN Issue(Checked(call, ans), ListCmd(call.args))
               ELSE IF Len(call.cmds) = 1
                    THEN [Checked(call, ans) EXCEPT !.cmds = Append(@, VersionCmd)]
                    ELSE Done(Checked(call, ans), NotInstalledMsg)
  /\ UNCHANGED allButCall

ListAfterVersion ==
  /\ ~Busy
  /\ call.tool = "list" /\ call.pc = "version"
  /\ \E ans \in WtAnswers :
       call' = IF ~isWorkTrunkInstalled(ans) THEN Done(Checked(call, ans), NotInstalledMsg)
               ELSE Issue(Checked(call, ans), ListCmd(call.args))
  /\ UNCHANGED allButCall


\* a failure of `wt list` that escapes the call
ListAfterCmdUncaught ==
  /\ ~Busy
  /\ call.tool = "list" /\ call.pc = "cmd"
  /\ \E ans \in WtAnswers :
       call' = IF ans.ok THEN Done(Ran(call, ans), ans.out)
               ELSE [Ran(call, ans) EXCEPT !.pc = "raised"]
  /\ UNCHANGED allButCall

ListAfterCmd ==
  /\ ~Busy
  /\ call.tool = "list" /\ call.pc = "cmd"
  /\ \E ans \in WtAnswers :
       call' = IF ans.ok THEN Done(Ran(call, ans), ans.out)
               ELSE Done(Ran(call, ans), ListErrorMsg(ans.err))
  /\ UNCHANGED allButCall

(* ---------------------------------------------------------------------- *)
(* worktrunk-switch                                                        *)
(* ---------------------------------------------------------------------- *)
SwitchAfterVersion ==
  /\ ~Busy
  /\ call.tool = "switch" /\ call.pc = "version"
  /\ \E ans \in WtAnswers :
       call' = IF ~isWorkTrunkInstalled(ans) THEN Done(Checked(call, ans), NotInstalledMsg)
               ELSE Issue(Checked(call, ans), SwitchCmd(call.args.branch))
  /\ UNCHANGED allButCall


\* a switch that leaves the cache to the poller
SwitchAfterCmdNoCache ==
  /\ ~Busy
  /\ call.tool = "switch" /\ call.pc = "cmd"
  /\ \E ans \in WtAnswers :
       IF ~ans.ok
       THEN /\ call' = Done(Ran(call, ans), SwitchErrorMsg(call.args.branch, ans.err))
            /\ UNCHANGED <<cacheVars, debounceVars>>
       ELSE IF call.args.branch # "@" /\ call.args.branch # "-"
       THEN /\ UNCHANGED cacheVars
            /\ updateStatus(WaitMarker)
            /\ call' = Done(Ran(call, ans),
                            SwitchOkMsg(call.args.branch, ans.out))
       ELSE /\ call' = IssueGit(Ran(call, ans))
            /\ UNCHANGED <<cacheVars, debounceVars>>
  /\ UNCHANGED allButCallCacheDebounce

SwitchAfterCmd ==
  /\ ~Busy
  /\ call.tool = "switch" /\ call.pc = "cmd"
  /\ \E ans \in WtAnswers :
       IF ~ans.ok
       THEN /\ call' = Done(Ran(call, ans), SwitchErrorMsg(call.args.branch, ans.err))
            /\ UNCHANGED <<cacheVars, debounceVars>>
       ELSE IF call.args.branch # "@" /\ call.args.branch # "-"
       THEN /\ currentBranch' = call.args.branch
            /\ lastKnownBranch' = call.args.branch
            /\ updateStatus(WaitMarker)
            /\ call' = Done(Ran(call, ans),
                            SwitchOkMsg(call.args.branch, ans.out))
       ELSE /\ call' = IssueGit(Ran(call, ans))
            /\ UNCHANGED <<cacheVars, debounceVars>>
  /\ UNCHANGED allButCallCacheDebounce


\* a shortcut switch that keeps the cached branch when git reports none
SwitchAfterGitKeeps ==
  /\ ~Busy
  /\ call.tool = "switch" /\ call.pc = "git"
  /\ \E g \in GitAnswers(gitHead) :
       LET c == Got(call, g)
       IN /\ currentBranch' = IF Truthy(c.val) THEN c.val ELSE currentBranch
          /\ lastKnownBranch' = IF Truthy(c.val) THEN c.val ELSE lastKnownBranch
          /\ call' = Done(c, SwitchOkMsg(c.args.branch, c.out))
  /\ updateStatus(WaitMarker)
  /\ UNCHANGED allButCallCacheDebounce

SwitchAfterGit ==
  /\ ~Busy
  /\ call.tool = "switch" /\ call.pc = "git"
  /\ \E g \in GitAnswers(gitHead) :
       LET c == Got(call, g)
       IN /\ currentBranch' = c.val
          /\ lastKnownBranch' = c.val
          /\ call' = Done(c, SwitchOkMsg(c.args.branch, c.out))
  /\ updateStatus(WaitMarker)
  /\ UNCHANGED allButCallCacheDebounce

(* ---------------------------------------------------------------------- *)
(* worktrunk-status                                                        *)
(* ---------------------------------------------------------------------- *)
StatusAfterVersion ==
  /\ ~Busy
  /\ call.tool = "status" /\ call.pc = "version"
  /\ \E ans \in WtAnswers :
       IF ~isWorkTrunkInstalled(ans)
       THEN call' = Done(Checked(call, ans), NotInstalledMsg)
       ELSE call' = IssueGit(Checked(call, ans))
  /\ UNCHANGED allButCall

\* answers from the cache when it holds a branch
StatusAfterGitCached ==
  /\ ~Busy
  /\ call.tool = "status" /\ call.pc = "git"
  /\ \E g \in GitAnswers(gitHead) :
       LET c == Got(call, g)
       IN /\ currentBranch' = IF Truthy(currentBranch) THEN currentBranch ELSE c.val
          /\ lastKnownBranch' = currentBranch'
          /\ call' = IF ~Truthy(currentBranch') THEN Done(c, NotInRepoMsg)
                     ELSE Issue(c, StatusCmd(currentBranch'))
  /\ UNCHANGED allButCallCache

StatusAfterGit ==
  /\ ~Busy
  /\ call.tool = "status" /\ call.pc = "git"
  /\ \E g \in GitAnswers(gitHead) :
       LET c == Got(call, g)
       IN /\ currentBranch' = c.val
          /\ lastKnownBranch' = c.val
          /\ call' = IF ~Truthy(c.val) THEN Done(c, NotInRepoMsg)
                     ELSE Issue(c, StatusCmd(c.val))
  /\ UNCHANGED allButCallCache


\* a status that forgets the branch when `wt list` fails
StatusAfterCmdForgets ==
  /\ ~Busy
  /\ call.tool = "status" /\ call.pc = "cmd"
  /\ \E ans \in WtAnswers :
       /\ call' = IF ~ans.ok THEN Done(Ran(call, ans), StatusErrorMsg(ans.err))
                  ELSE IF ans.out # <<>> THEN Done(Ran(call, ans), ans.out)
                  ELSE Done(Ran(call, ans), <<"Current branch: ", currentBranch>>)
       /\ currentBranch' = IF ans.ok THEN currentBranch ELSE NULL
       /\ lastKnownBranch' = IF ans.ok THEN lastKnownBranch ELSE NULL
  /\ UNCHANGED allButCallCache

StatusAfterCmd ==
  /\ ~Busy
  /\ call.tool = "status" /\ call.pc = "cmd"
  /\ \E ans \in WtAnswers :
       call' = IF ~ans.ok THEN Done(Ran(call, ans), StatusErrorMsg(ans.err))
               ELSE IF ans.out # <<>> THEN Done(Ran(call, ans), ans.out)
               ELSE Done(Ran(call, ans), <<"Current branch: ", currentBranch>>)
  /\ UNCHANGED allButCall

(* ---------------------------------------------------------------------- *)
(* worktrunk-status-update                                                 *)
(* ---------------------------------------------------------------------- *)
UsesCurrent(args) == ~Truthy(args.branch) \/ args.branch = "@"
MarkerValue(args) == IF Truthy(args.marker) THEN args.marker ELSE ""

\* a status-update that clears the pending timeout before it sets the marker
StatusUpdateAfterVersionClears ==
  /\ ~Busy
  /\ call.tool = "status-update" /\ call.pc = "version"
  /\ \E ans \in WtAnswers :
       IF ~isWorkTrunkInstalled(ans)
       THEN call' = Done(Checked(call, ans), NotInstalledMsg)
       ELSE IF UsesCurrent(call.args)
       THEN call' = IssueGit(Checked(call, ans))
       ELSE call' = Issue([Checked(call, ans) EXCEPT !.val = call.args.branch],
                          MarkerCmd(MarkerValue(call.args), call.args.branch))
  /\ timers' = {}
  /\ statusTimer' = NoTimer
  /\ updates' = Settle(updates, {})
  /\ UNCHANGED <<cacheVars, sinceLast, nupd, lastBurst, branchCheckInterval, markers,
                 polls, init, nevents, ntools, nIntervals, lastRemoved, gitHead>>

StatusUpdateAfterVersion ==
  /\ ~Busy
  /\ call.tool = "status-update" /\ call.pc = "version"
  /\ \E ans \in WtAnswers :
       IF ~isWorkTrunkInstalled(ans)
       THEN call' = Done(Checked(call, ans), NotInstalledMsg)
       ELSE IF UsesCurrent(call.args)
       THEN call' = IssueGit(Checked(call, ans))
       ELSE call' = Issue([Checked(call, ans) EXCEPT !.val = call.args.branch],
                          MarkerCmd(MarkerValue(call.args), call.args.branch))
  /\ UNCHANGED allButCall

StatusUpdateAfterGit ==
  /\ ~Busy
  /\ call.tool = "status-update" /\ call.pc = "git"
  /\ \E g \in GitAnswers(gitHead) :
       LET c == Got(call, g)
       IN call' = IF ~Truthy(c.val) THEN Done(c, NotInRepoMsg)
                  ELSE Issue(c, MarkerCmd(MarkerValue(c.args), c.val))
  /\ UNCHANGED allButCall

\* a status-update that caches its target whichever way it was given
StatusUpdateAfterCmdAlwaysCaches ==
  /\ ~Busy
  /\ call.tool = "status-update" /\ call.pc = "cmd"
  /\ \E ans \in WtAnswers :
       IF ~ans.ok
       THEN /\ call' = Done(Ran(call, ans), UpdateErrorMsg(ans.err))
            /\ UNCHANGED cacheVars
       ELSE /\ currentBranch' = call.val
            /\ lastKnownBranch' = call.val
            /\ call' = Done(Ran(call, ans), UpdatedMsg(call.val, call.args.marker))
  /\ UNCHANGED allButCallCache

StatusUpdateAfterCmd ==
  /\ ~Busy
  /\ call.tool = "status-update" /\ call.pc = "cmd"
  /\ \E ans \in WtAnswers :
       IF ~ans.ok
       THEN /\ call' = Done(Ran(call, ans), UpdateErrorMsg(ans.err))
            /\ UNCHANGED cacheVars
       ELSE /\ IF UsesCurrent(call.args)
               THEN /\ currentBranch' = call.val
                    /\ lastKnownBranch' = call.val
               ELSE UNCHANGED cacheVars
            /\ call' = Done(Ran(call, ans), UpdatedMsg(call.val, call.args.marker))
  /\ UNCHANGED allButCallCache

(* ---------------------------------------------------------------------- *)
(* worktrunk-create                                                        *)
(* ---------------------------------------------------------------------- *)
\* runs the command although the version check failed
CreateAfterVersionUnchecked ==
  /\ ~Busy
  /\ call.tool = "create" /\ call.pc = "version"
  /\ \E ans \in WtAnswers :
       call' = IF ~ValidBranchName(call.args.branch)
               THEN Done(Checked(call, ans), InvalidNameMsg(call.args.branch))
               ELSE Issue(Checked(call, ans), CreateCmd(call.args.branch, call.args.base))
  /\ UNCHANGED allButCall

CreateAfterVersion ==
  /\ ~Busy
  /\ call.tool = "create" /\ call.pc = "version"
  /\ \E ans \in WtAnswers :
       call' = IF ~isWorkTrunkInstalled(ans)
               THEN Done(Checked(call, ans), NotInstalledMsg)
               ELSE IF ~ValidBranchName(call.args.branch)
               THEN Done(Checked(call, ans), InvalidNameMsg(call.args.branch))
               ELSE Issue(Checked(call, ans), CreateCmd(call.args.branch, call.args.base))
  /\ UNCHANGED allButCall


\* a create that leaves the session's status as it was
CreateAfterCmdSilent ==
  /\ ~Busy
  /\ call.tool = "create" /\ call.pc = "cmd"
  /\ \E ans \in WtAnswers :
       IF ~ans.ok
       THEN /\ call' = Done(Ran(call, ans), CreateErrorMsg(call.args.branch, ans.err))
            /\ UNCHANGED cacheVars
       ELSE /\ currentBranch' = call.args.branch
            /\ lastKnownBranch' = call.args.branch
            /\ call' = Done(Ran(call, ans),
                            CreatedMsg(call.args.branch, call.args.base, ans.out))
  /\ UNCHANGED debounceVars
  /\ UNCHANGED allButCallCacheDebounce

CreateAfterCmd ==
  /\ ~Busy
  /\ call.tool = "create" /\ call.pc = "cmd"
  /\ \E ans \in WtAnswers :
       IF ~ans.ok
       THEN /\ call' = Done(Ran(call, ans), CreateErrorMsg(call.args.branch, ans.err))
            /\ UNCHANGED <<cacheVars, debounceVars>>
       ELSE /\ currentBranch' = call.args.branch
            /\ lastKnownBranch' = call.args.branch
            /\ updateStatus(WaitMarker)
            /\ call' = Done(Ran(call, ans),
                            CreatedMsg(call.args.branch, call.args.base, ans.out))
  /\ UNCHANGED allButCallCacheDebounce

(* ---------------------------------------------------------------------- *)
(* worktrunk-remove                                                        *)
(* ---------------------------------------------------------------------- *)
RemoveAfterVersion ==
  /\ ~Busy
  /\ call.tool = "remove" /\ call.pc = "version"
  /\ \E ans \in WtAnswers :
       call' = IF ~isWorkTrunkInstalled(ans) THEN Done(Checked(call, ans), NotInstalledMsg)
               ELSE Issue(Checked(call, ans), RemoveCmd(call.args.branch))
  /\ UNCHANGED allButCall

\* a remove that forgets the cached branch whether or not `wt remove` worked
RemoveAfterCmdEager ==
  /\ ~Busy
  /\ call.tool = "remove" /\ call.pc = "cmd"
  /\ \E ans \in WtAnswers :
       IF ~ans.ok
       THEN /\ call' = Done(Ran(call, ans), RemoveErrorMsg(call.args.branch, ans.err))
            /\ IF call.args.branch = "@" \/ call.args.branch = currentBranch
               THEN currentBranch' = NULL /\ lastKnownBranch' = NULL
               ELSE UNCHANGED cacheVars
            /\ UNCHANGED lastRemoved
       ELSE IF call.args.branch = "@" \/ call.args.branch = currentBranch
       THEN /\ currentBranch' = NULL
            /\ lastKnownBranch' = NULL
            /\ call' = IssueGit([Ran(call, ans) EXCEPT
                                    !.hit = IF call.args.branch = currentBranch
                                            THEN currentBranch ELSE NULL])
            /\ lastRemoved' = currentBranch
       ELSE /\ call' = Done(Ran(call, ans),
                            RemovedMsg(call.args.branch, ans.out))
            /\ UNCHANGED <<cacheVars, lastRemoved>>
  /\ UNCHANGED <<debounceVars, branchCheckInterval, markers, polls, init,
                 nevents, ntools, nIntervals, gitHead>>

RemoveAfterCmd ==
  /\ ~Busy
  /\ call.tool = "remove" /\ call.pc = "cmd"
  /\ \E ans \in WtAnswers :
       IF ~ans.ok
       THEN /\ call' = Done(Ran(call, ans), RemoveErrorMsg(call.args.branch, ans.err))
            /\ UNCHANGED <<cacheVars, lastRemoved>>
       ELSE IF call.args.branch = "@" \/ call.args.branch = currentBranch
       THEN /\ currentBranch' = NULL
            /\ lastKnownBranch' = NULL
            /\ call' = IssueGit([Ran(call, ans) EXCEPT
                                    !.hit = IF call.args.branch = currentBranch
                                            THEN currentBranch ELSE NULL])
            /\ lastRemoved' = currentBranch
       ELSE /\ call' = Done(Ran(call, ans),
                            RemovedMsg(call.args.branch, ans.out))
            /\ UNCHANGED <<cacheVars, lastRemoved>>
  /\ UNCHANGED <<debounceVars, branchCheckInterval, markers, polls, init,
                 nevents, ntools, nIntervals, gitHead>>


\* a remove that returns only once git reports a branch
RemoveAfterGitWaits ==
  /\ ~Busy
  /\ call.tool = "remove" /\ call.pc = "git"
  /\ \E g \in GitAnswers(gitHead) :
       LET c == Got(call, g)
       IN /\ Truthy(c.val)
          /\ currentBranch' = c.val
          /\ lastKnownBranch' = c.val
          /\ call' = Done(c, RemovedMsg(c.args.branch, c.out))
  /\ UNCHANGED allButCallCache

RemoveAfterGit ==
  /\ ~Busy
  /\ call.tool = "remove" /\ call.pc = "git"
  /\ \E g \in GitAnswers(gitHead) :
       LET c == Got(call, g)
       IN /\ IF Truthy(c.val)
             THEN /\ currentBranch' = c.val
                  /\ lastKnownBranch' = c.val
             ELSE UNCHANGED cacheVars
          /\ call' = Done(c, RemovedMsg(c.args.branch, c.out))
  /\ UNCHANGED allButCallCache

(* ---------------------------------------------------------------------- *)
(* worktrunk-default-branch                                                *)
(* ---------------------------------------------------------------------- *)

\* a default-branch tool that schedules an update as a switch does
DefaultBranchAfterVersionUpdates ==
  /\ ~Busy
  /\ call.tool = "default-branch" /\ call.pc = "version"
  /\ \E ans \in WtAnswers :
       IF ~isWorkTrunkInstalled(ans)
       THEN /\ call' = Done(Checked(call, ans), NotInstalledMsg)
            /\ UNCHANGED debounceVars
       ELSE /\ call' = Issue(Checked(call, ans), DefaultBranchCmd)
            /\ updateStatus(WaitMarker)
  /\ UNCHANGED <<cacheVars, branchCheckInterval, markers, polls, init,
                 nevents, ntools, nIntervals, lastRemoved, gitHead>>

DefaultBranchAfterVersion ==
  /\ ~Busy
  /\ call.tool = "default-branch" /\ call.pc = "version"
  /\ \E ans \in WtAnswers :
       call' = IF ~isWorkTrunkInstalled(ans) THEN Done(Checked(call, ans), NotInstalledMsg)
               ELSE Issue(Checked(call, ans), DefaultBranchCmd)
  /\ UNCHANGED allButCall

\* a default-branch tool that returns the output of `wt` as it is
DefaultBranchAfterCmdRaw ==
  /\ ~Busy
  /\ call.tool = "default-branch" /\ call.pc = "cmd"
  /\ \E ans \in WtAnswers :
       call' = IF ~ans.ok THEN Done(Ran(call, ans), DefaultErrorMsg(ans.err))
               ELSE IF ans.out # <<>>
               THEN Done(Ran(call, ans), ans.out)
               ELSE Done(Ran(call, ans), UnableMsg)
  /\ UNCHANGED allButCall

DefaultBranchAfterCmd ==
  /\ ~Busy
  /\ call.tool = "default-branch" /\ call.pc = "cmd"
  /\ \E ans \in WtAnswers :
       call' = IF ~ans.ok THEN Done(Ran(call, ans), DefaultErrorMsg(ans.err))
               ELSE IF Trim(ans.out) # <<>>
               THEN Done(Ran(call, ans), Trim(ans.out))
               ELSE Done(Ran(call, ans), UnableMsg)
  /\ UNCHANGED allButCall

ToolStep ==
  \/ StartCall
  \/ Return
  \/ ListAfterVersion
  \/ ListAfterCmd
  \/ SwitchAfterVersion
  \/ SwitchAfterCmd
  \/ SwitchAfterGit
  \/ StatusAfterVersion
  \/ StatusAfterGit
  \/ StatusAfterCmd
  \/ StatusUpdateAfterVersion
  \/ StatusUpdateAfterGit
  \/ StatusUpdateAfterCmd
  \/ CreateAfterVersion
  \/ CreateAfterCmd
  \/ RemoveAfterVersion
  \/ RemoveAfterCmd
  \/ RemoveAfterGit
  \/ DefaultBranchAfterVersion
  \/ DefaultBranchAfterCmd

Background ==
  \/ Tick
  \/ ExternalCheckout
  \/ DebounceFire
  \/ MarkerAfterGit
  \/ MarkerAfterWt
  \/ MarkerAfterLog
  \/ UnhandledRejection
  \/ PollTick
  \/ PollAfterGit
  \/ InitFire
  \/ InitAfterGit

NextEvents == Event \/ Background

Next == ToolStep \/ Background

\* the plugin driven by tool calls only
Spec == Init /\ [][Next]_vars

\* the plugin driven by events only
SpecEvents == Init /\ [][NextEvents]_vars

\* the events delivered while the progress of the poller is observed
EventWhilePolling == nevents < MaxPollEvents /\ Event

NextPolling == EventWhilePolling \/ Background

\* the plugin with its poller, with the event loop making progress: while
\* the interval exists its callback keeps running, an invocation of git
\* completes, and a timeout that is due runs.  No event has to be delivered
\* and no checkout has to happen.  A rejection without a handler is reported.
SpecPolling ==
  /\ Init /\ [][NextPolling]_vars
  /\ WF_vars(PollTick)
  /\ WF_vars(PollAfterGit)
  /\ WF_vars(DebounceFire)
  /\ WF_vars(UnhandledRejection)

\* the steps of a tool call after its start: each runs when the external
\* invocation the call awaits has completed, or hands the result to the host
CallProgress ==
  \/ Return
  \/ ListAfterVersion
  \/ ListAfterCmd
  \/ SwitchAfterVersion
  \/ SwitchAfterCmd
  \/ SwitchAfterGit
  \/ StatusAfterVersion
  \/ StatusAfterGit
  \/ StatusAfterCmd
  \/ StatusUpdateAfterVersion
  \/ StatusUpdateAfterGit
  \/ StatusUpdateAfterCmd
  \/ CreateAfterVersion
  \/ CreateAfterCmd
  \/ RemoveAfterVersion
  \/ RemoveAfterCmd
  \/ RemoveAfterGit
  \/ DefaultBranchAfterVersion
  \/ DefaultBranchAfterCmd

\* the tool calls started while their return is observed
CallWhileAwaited == ntools < MaxAwaitedCalls /\ StartCall

\* the callbacks the plugin runs by itself, in a directory whose checked-out
\* branch stays as it was when the plugin was loaded
OwnCallbacks ==
  \/ Tick
  \/ DebounceFire
  \/ MarkerAfterGit
  \/ MarkerAfterWt
  \/ MarkerAfterLog
  \/ UnhandledRejection
  \/ PollTick
  \/ PollAfterGit
  \/ InitFire
  \/ InitAfterGit

NextAwaited == CallWhileAwaited \/ CallProgress \/ OwnCallbacks

\* the plugin driven by tool calls, with every external invocation a tool
\* call awaits completing: the step that follows the await runs.  A timeout
\* that is due runs and a rejection without a handler is reported, as the
\* event loop does not stop.  Nothing else has to happen.
SpecAwaited ==
  /\ Init /\ [][NextAwaited]_vars
  /\ WF_vars(CallProgress)
  /\ WF_vars(DebounceFire)
  /\ WF_vars(UnhandledRejection)

(* ---------------------------------------------------------------------- *)
(* Properties                                                              *)
(* ---------------------------------------------------------------------- *)
Bursts == {u.burst : u \in updates}
Entries(b) == {u \in updates : u.burst = b}
LastOf(b) == CHOOSE u \in Entries(b) : \A v \in Entries(b) : v.id <= u.id
\* every status change of the burst has been dealt with and no further
\* change can join the burst
BurstOver(b) ==
  /\ \A u \in Entries(b) : Terminal(u)
  /\ b # lastBurst \/ sinceLast >= DebounceDelay
\* the text the claim expects in the marker command for a status change
ExpectedText(marker) ==
  CASE marker = WorkMarker -> "work-marker"
    [] marker = WaitMarker -> "wait-marker"
    [] OTHER -> ""

\* C1: for a burst of status changes, each less than the debounce delay
\* after the previous one, with git reporting a branch when the update
\* runs, exactly one marker command is issued for the whole burst, and it
\* carries the marker of the last status change of the burst.
C1_OneInvocationPerBurst ==
  \A b \in Bursts :
    (BurstOver(b) /\ LastOf(b).gitval # NULL) =>
      /\ Cardinality({u \in Entries(b) : u.fate = "invoked"}) = 1
      /\ LastOf(b).fate = "invoked"
      /\ LastOf(b).sent = ExpectedText(LastOf(b).marker)

C1_Witness ==
  \E b \in Bursts :
    /\ BurstOver(b)
    /\ Cardinality(Entries(b)) >= 2
    /\ LastOf(b).fate = "invoked"
    /\ LastOf(b).gitval # NULL
    /\ LastOf(b).sent = "work-marker"

\* the marker the claim gives for each status value
ClaimedStatusMarker(status) ==
  CASE status \in {"working", "thinking"} -> WorkMarker
    [] status \in {"waiting", "idle"}     -> WaitMarker
    [] OTHER                              -> NULL

ClaimedInvalid(branch) ==
  \E i \in DOMAIN NameChars[branch] : NameChars[branch][i] \in {" ", "#", "$", "%", "^"}

LastCmd(c) == c.cmds[Len(c.cmds)]

\* C5 as stated: when worktrunk-remove has succeeded for the branch held in
\* the cache, the cache no longer holds that branch when the call returns.
C5_Original ==
  (call.tool = "remove" /\ call.pc = "done" /\ call.cok = "ok" /\ call.hit # NULL) =>
    currentBranch # call.hit

\* C5 amended: when `wt remove` has succeeded for the cached branch the
\* cache is cleared before the branch is re-resolved, and when the call
\* returns the cache holds the branch git reported to that re-resolution if
\* it reported one (which can be the removed branch again) and is left as
\* it is otherwise.  A later worktrunk-status call always asks git: it sets
\* the cache to the answer, returns the not-in-a-repository message without
\* `wt list` when the answer is no branch, and otherwise runs `wt list` for
\* the branch git answered, whatever the cache held before.
C5_RemoveClearsStatusResolves ==
  [][/\ (call.tool = "remove" /\ call.pc = "cmd" /\ call'.pc = "git") =>
          /\ call.args.branch = "@" \/ call.args.branch = currentBranch
          /\ currentBranch' = NULL
          /\ lastKnownBranch' = NULL
          /\ LastCmd(call') = GitCmd
     /\ (call.tool = "remove" /\ call.pc = "git" /\ call'.pc = "done") =>
          currentBranch' = IF call'.val # NULL THEN call'.val ELSE currentBranch
     /\ (call.tool = "status" /\ call.pc = "version" /\ call'.vok = "ok") =>
          /\ call'.pc = "git"
          /\ LastCmd(call') = GitCmd
     /\ (call.tool = "status" /\ call.pc = "git" /\ call'.pc # "git") =>
          /\ currentBranch' = call'.val
          /\ call'.val = NULL =>
               /\ call'.pc = "done"
               /\ call'.res = NotInRepoMsg
               /\ call'.cmds = <<VersionCmd, GitCmd>>
          /\ call'.val # NULL =>
               /\ call'.pc = "cmd"
               /\ LastCmd(call') = <<"wt", "list", "--branch", call'.val>>]_vars

\* worktrunk-status has answered after the cached branch was removed, and
\* its answer is about the branch git reports, which is another branch
C5_Witness ==
  /\ call.tool = "status"
  /\ call.pc = "done"
  /\ call.cok = "ok"
  /\ lastRemoved \in Branches
  /\ call.val \in Branches \ {lastRemoved}
  /\ call.cmds[3] = <<"wt", "list", "--branch", call.val>>

\* C6: a successful worktrunk-create without a base issues `wt switch` with
\* --create and the branch and without --base, and returns a text naming
\* the branch; with a base the command also carries --base with that value
\* and the text names the base, as "current HEAD" when the base is "@".
C6_CreateCommand ==
  (call.tool = "create" /\ call.pc = "done" /\ call.cok = "ok") =>
    LET cmd == call.cmds[2]
        branch == call.args.branch
        base == call.args.base
    IN /\ Len(call.cmds) = 2
       /\ SubSeq(cmd, 1, 4) = <<"wt", "switch", "--create", branch>>
       /\ Contains(call.res, branch)
       /\ base = NULL =>
            /\ ~Contains(cmd, "--base=")
            /\ Len(cmd) = 4
       /\ base # NULL =>
            /\ SubSeq(cmd, 5, 6) = <<"--base=", base>>
            /\ Contains(call.res, IF base = "@" THEN "current HEAD" ELSE base)

C6_Witness ==
  /\ call.tool = "create"
  /\ call.pc = "done"
  /\ call.cok = "ok"
  /\ call.args.base = "@"
  /\ call.args.branch = "feat/x"
  /\ Contains(call.res, "current HEAD")
  /\ Contains(call.res, "feat/x")

\* C7: the command of worktrunk-list is `wt list` with --format=json exactly
\* when format is "json", --full exactly when full is true and --branches
\* exactly when branches is true, and the tool returns the output of the
\* command unmodified.
C7_ListCommand ==
  (call.tool = "list" /\ call.vok = "ok") =>
    LET cmd == call.cmds[2]
    IN /\ SubSeq(cmd, 1, 2) = <<"wt", "list">>
       /\ Contains(cmd, "--format=json") <=> call.args.format = "json"
       /\ Contains(cmd, "--full") <=> call.args.full
       /\ Contains(cmd, "--branches") <=> call.args.branches
       /\ (call.pc = "done" /\ call.cok = "ok") => call.res = call.out

C7_Witness ==
  /\ call.tool = "list"
  /\ call.pc = "done"
  /\ call.cok = "ok"
  /\ call.args.format = "json" /\ call.args.full /\ call.args.branches
  /\ call.cmds[2] = <<"wt", "list", "--format=json", "--full", "--branches">>
  /\ call.res = <<" ", "main", "\n">>

\* C8: the `wt switch --create` command of worktrunk-create carries --yes,
\* and carries --no-verify exactly when skipHooks is true.
C8_YesAndNoVerify ==
  (call.tool = "create" /\ Len(call.cmds) >= 2) =>
    /\ Contains(call.cmds[2], "--yes")
    /\ Contains(call.cmds[2], "--no-verify") <=> call.args.skipHooks

\* C9: at most one debounce timeout is scheduled and has not run yet.
C9_AtMostOnePending == Cardinality(timers) <= 1

\* a second status change has replaced the timeout of the first
C9_Witness ==
  /\ Cardinality(timers) = 1
  /\ \E u \in updates : u.fate = "cancelled"
  /\ \E u \in updates : u.fate = "pending" /\ u.id = statusTimer

\* C10: setInterval is called at most once, by the initialization and by
\* nothing else, and once the poll interval exists no step cancels or
\* replaces it.
C10_PollerStartedOnce ==
  [][/\ nIntervals' <= 1
     /\ nIntervals' # nIntervals => (init = "git" /\ init' = "done")
     /\ branchCheckInterval' # branchCheckInterval => nIntervals' = nIntervals + 1
     /\ branchCheckInterval # NULL => branchCheckInterval' = branchCheckInterval]_vars

\* the poller runs while a tool call is in flight and an update is pending
C10_Witness ==
  /\ branchCheckInterval = PollHandle
  /\ nIntervals = 1
  /\ polls
  /\ call.pc = "cmd"
  /\ timers # {}

\* the positions of a tool call
CallStages == {"idle", "version", "cmd", "git", "done"}

\* C11: no tool call raises.  A call is always at one of its awaits or has
\* its result; the step in which `wt --version` or the tool's own command
\* fails ends the call with a text that begins with "Error", and the step
\* in which git gives no branch to a tool ends the call with a text.
C11_NoToolRaises ==
  [][/\ call'.pc \in CallStages
     /\ (call.pc = "version" /\ call'.vok = "failed") =>
          (call'.pc = "done" /\ call'.res = NotInstalledMsg)
     /\ (call.pc = "cmd" /\ call'.cok = "failed") =>
          (call'.pc = "done" /\ call'.res # <<>> /\ call'.res[1] \in {"Error:", "Error"})
     /\ (call.pc = "git" /\ call'.pc # "git" /\ call'.val = NULL) =>
          (call'.pc = "done" /\ call'.res # <<>>)]_vars

\* worktrunk-switch has its result after `wt switch` failed
C11_Witness ==
  /\ call.tool = "switch"
  /\ call.pc = "done"
  /\ call.cok = "failed"
  /\ call.res = SwitchErrorMsg(call.args.branch, <<"exit code 1">>)

\* C12: when worktrunk-switch with a branch other than "@" and "-", or
\* worktrunk-create, has succeeded, the cache holds the branch of the call
\* at the moment the call returns.
C12_CacheIsTarget ==
  (/\ call.pc = "done"
   /\ call.cok = "ok"
   /\ \/ call.tool = "switch" /\ call.args.branch \notin {"@", "-"}
      \/ call.tool = "create") =>
    /\ currentBranch = call.args.branch
    /\ lastKnownBranch = call.args.branch

\* a switch to feat/x returns while git and the cache said main before
C12_Witness ==
  /\ call.tool = "switch"
  /\ call.pc = "done"
  /\ call.cok = "ok"
  /\ call.args.branch = "feat/x"
  /\ currentBranch = "feat/x"
  /\ gitHead = "main"
  /\ branchCheckInterval # NULL

\* the names the allow-list is said to admit: letters, digits, slash, hyphen
\* and dot only, or the shortcut "@"
ClaimedAllowed(branch) ==
  \/ branch = "@"
  \/ /\ NameChars[branch] # <<>>
     /\ \A i \in DOMAIN NameChars[branch] :
          NameChars[branch][i] \in (WordChars \ {"_"}) \cup {"/", "-", "."}

\* C13: switch, create, remove and status-update pass a branch name to an
\* external invocation only if it is on the allow-list.
C13_BranchValidatedBeforeUse ==
  (/\ call.tool \in {"switch", "create", "remove", "status-update"}
   /\ Truthy(call.args.branch)
   /\ \E i \in DOMAIN call.cmds : Contains(call.cmds[i], call.args.branch)) =>
    ClaimedAllowed(call.args.branch)

\* C14 as stated: an update whose resolution of the branch gave nothing
\* issues no marker command.
C14_Original ==
  \A u \in updates : u.gitval = NULL => u.fate # "invoked"

\* C14 amended: when a debounced update resumes with git giving no branch,
\* it issues no marker command exactly when the cache is empty afterwards:
\* the cache was empty when the timeout ran (it is then set to empty), or
\* has been emptied since.  When the cache held a branch at the timeout and
\* still holds one, the cache is left as it is and the marker command is
\* issued for the cached branch.
C14_ResolutionFailure ==
  [][\A m \in markers :
       (m.pc = "git" /\ m \notin markers' /\ gitHead = NULL) =>
         LET issued == [m EXCEPT !.pc = "wt"] \in markers'
             gone   == \A n \in markers' : n.id # m.id
         IN /\ issued \/ gone
            /\ issued <=> (m.had /\ Truthy(currentBranch))
            /\ ~m.had => (currentBranch' = NULL /\ lastKnownBranch' = NULL)
            /\ m.had => UNCHANGED cacheVars]_vars

\* both outcomes: an update that issued its command for the cached branch
\* although git gave nothing, and one that did nothing
C14_Witness ==
  /\ \E u \in updates : u.gitval = NULL /\ u.fate = "invoked"
  /\ \E m \in markers : m.pc = "wt" /\ m.had
  /\ gitHead = NULL

\* C15 (as claimed): a failure of the marker command in the debounced update is
\* never propagated, also when the logging call fails: no run of
\* setStatusMarker ends in a rejected promise that reaches the host
C15_MarkerFailureNeverPropagates ==
  \A m \in markers : m.pc # "rejected"

\* the two places of the cache always hold the same value
CacheInSync == currentBranch = lastKnownBranch

\* C16: a step of the poller (the interval callback, or git answering a run
\* of checkBranchChange) changes the cache only when the branch git reports
\* is non-null and differs from the cached value, and then the cache becomes
\* that branch; it leaves the tool call in flight and its commands, the
\* marker commands in flight and the debounce timers as they are.
C16_PollOnlyRefreshesCache ==
  [][(PollTick \/ PollAfterGit) =>
       /\ \/ UNCHANGED cacheVars
          \/ /\ gitHead # NULL
             /\ gitHead # currentBranch
             /\ currentBranch' = gitHead
             /\ lastKnownBranch' = gitHead
       /\ PollTick => UNCHANGED cacheVars
       /\ CacheInSync /\ CacheInSync'
       /\ UNCHANGED <<call, markers, statusTimer, timers, updates, nupd>>]_vars

\* a run of checkBranchChange awaits git while the branch checked out differs
\* from the cached one, and neither a tool call nor an update is in flight
C16_Witness ==
  /\ polls
  /\ currentBranch = "main"
  /\ gitHead = "feat/x"
  /\ call.pc = "idle"
  /\ markers = {}
  /\ timers = {}

\* C17: while the poller is running, when the branch checked out is B then
\* either it is changed again or the cache comes to hold B; no event and no
\* tool call is needed for that.
C17_CacheFollowsCheckout ==
  \A B \in Branches :
    (branchCheckInterval # NULL /\ gitHead = B)
      ~> (currentBranch = B \/ gitHead # B)

\* the poller has brought the cache to the branch checked out outside the
\* plugin: initialization cached the other branch, and no event was delivered
C17_Witness ==
  /\ branchCheckInterval # NULL
  /\ nevents = 0
  /\ gitHead = "feat/x"
  /\ currentBranch = "main"
  /\ polls

\* the invocations of git and of `wt` that have been started and have not
\* answered yet
InFlight ==
  (IF call.pc \in {"version", "cmd", "git"} THEN 1 ELSE 0)
  + Cardinality({m \in markers : m.pc \in {"git", "wt"}})
  + (IF polls THEN 1 ELSE 0)
  + (IF init = "git" THEN 1 ELSE 0)

\* C18 (as claimed): at any time at most one invocation of git or of `wt`,
\* started by a tool call, the debounce timer, the poller or the
\* initialization, is in flight.
C18_NoOverlap == InFlight <= 1

\* how many times the command line `cmd` occurs among `cmds`
Occurrences(cmd, cmds) == Cardinality({i \in 1..Len(cmds) : cmds[i] = cmd})

\* the commands of a call other than the version check and the query of git
DomainCmds(cmds) == {i \in 1..Len(cmds) : cmds[i] \notin {VersionCmd, GitCmd}}

\* C19: within one tool call `wt --version` is invoked at most once and the
\* tool's own `wt` command at most once, and the step in which either of
\* them fails ends the call without another command: a failed version check
\* leaves the version check as the only command of the call, and a failed
\* command of the tool is the last command of the call.
C19_NoRetry ==
  [][/\ Occurrences(VersionCmd, call'.cmds) <= 1
     /\ Cardinality(DomainCmds(call'.cmds)) <= 1
     /\ call'.vok = "failed" => (call'.pc = "done" /\ call'.cmds = <<VersionCmd>>)
     /\ call'.cok = "failed" =>
          /\ call'.pc = "done"
          /\ call'.cmds = call.cmds
          /\ DomainCmds(call'.cmds) = {Len(call'.cmds)}]_vars

\* worktrunk-list has returned the error of its failed `wt list`, having
\* invoked the version check and `wt list` once each
C19_Witness ==
  /\ call.tool = "list"
  /\ call.pc = "done"
  /\ call.cok = "failed"
  /\ call.cmds = <<VersionCmd, ListCmd(call.args)>>
  /\ call.res = ListErrorMsg(<<"exit code 1">>)

\* the marker the claim expects for a session event without a status
ClaimedSessionMarker(type) ==
  CASE type = "session.created" -> WaitMarker
    [] type = "session.idle"    -> NULL
    [] type = "session.error"   -> NULL

\* C20: handling a session.created event schedules a timeout that carries
\* the wait marker, and handling a session.idle or a session.error event
\* schedules a timeout that carries no marker (clear).
C20_SessionEventMapping ==
  [][\A type \in {"session.created", "session.idle", "session.error"} :
       EventOf(type, NULL) =>
         \E t \in timers' :
           /\ t.id = statusTimer'
           /\ t.id \notin {x.id : x \in timers}
           /\ t.remaining = DebounceDelay
           /\ t.marker = ClaimedSessionMarker(type)
           /\ \A x \in timers' : x.id = t.id]_vars

\* the update of a wait marker has run and a clear is pending, as after
\* session.created followed by session.idle
C20_Witness ==
  /\ nevents = 2
  /\ \E u \in updates : u.marker = WaitMarker /\ u.id # statusTimer
  /\ \E t \in timers : t.id = statusTimer /\ t.marker = NULL
                       /\ t.remaining = DebounceDelay
  /\ markers = {}

\* every piece of the text is white space
AllSpace(s) == \A i \in 1..Len(s) : IsSpace(s[i])

\* r is s without the white space around it
IsTrimOf(r, s) ==
  /\ r # <<>> => ~IsSpace(r[1]) /\ ~IsSpace(r[Len(r)])
  /\ \E i \in 0..Len(s) : \E j \in i..Len(s) :
       /\ AllSpace(SubSeq(s, 1, i))
       /\ r = SubSeq(s, i + 1, j)
       /\ AllSpace(SubSeq(s, j + 1, Len(s)))

\* C21: once worktrunk-default-branch has run its command, its result is the
\* output of the command without the white space around it; when nothing is
\* left of the output it is the "Unable to determine default branch" text;
\* when the command failed it is a text that contains "Error".
C21_DefaultBranchResult ==
  (call.tool = "default-branch" /\ call.pc = "done" /\ call.vok = "ok") =>
    /\ call.cmds = <<VersionCmd, DefaultBranchCmd>>
    /\ call.cok = "failed" => Contains(call.res, "Error")
    /\ (call.cok = "ok" /\ ~AllSpace(call.out)) => IsTrimOf(call.res, call.out)
    /\ (call.cok = "ok" /\ AllSpace(call.out)) =>
         Contains(call.res, "Unable to determine default branch")

\* the command printed the branch with white space around it
C21_Witness ==
  /\ call.tool = "default-branch"
  /\ call.pc = "done"
  /\ call.out = <<" ", "main", "\n">>
  /\ call.res = <<"main">>

\* a `wt` invocation of the call has failed and the call has its result
FailedCall ==
  call.pc = "done" /\ (call.vok = "failed" \/ call.cok = "failed")

C23_TargetsReportedBranch ==
  [][\A m \in markers :
       (m.pc = "git" /\ m \notin markers' /\ gitHead # NULL) =>
         /\ [m EXCEPT !.pc = "wt", !.had = TRUE] \in markers'
         /\ currentBranch' = gitHead /\ lastKnownBranch' = gitHead
         /\ \A u \in updates' :
              u.id = m.id => (u.fate = "invoked" /\ u.gitval = gitHead
                              /\ u.target = gitHead)]_vars

\* an update whose command went to the branch git reported while the cache
\* held the other branch when the timeout ran; the cache has moved on since
C23_Witness ==
  /\ \E u \in updates : u.fate = "invoked" /\ u.gitval = "main" /\ u.target = "main"
  /\ \E m \in markers : m.pc = "wt"
  /\ currentBranch = "feat/x"

\* C24 (as claimed): the marker commands of the debounced updates are issued
\* in the order of the status changes that scheduled them: when the command
\* of an update is issued, no update scheduled after it has had its command
\* issued already.
C24_IssuedInOrder ==
  [][\A u \in updates : \A w \in updates' :
       (w.id = u.id /\ u.fate = "running" /\ w.fate = "invoked") =>
         \A v \in updates : v.id > u.id => v.fate # "invoked"]_vars

\* C25 (as claimed): an invocation of git that began before a tool call set
\* the cache does not replace the value the tool set when it completes
\* afterwards.  Stated for the debounced updater: under Spec every status
\* change comes from a tool call that has just set the cache, and a status
\* change recorded after that of a run whose timeout has fired was made while
\* the run awaited git; the answer to such a run leaves the cache as it is.
C25_NoStaleOverwrite ==
  [][\A m \in markers :
       (m.pc = "git" /\ m \notin markers' /\ \E v \in updates : v.id > m.id) =>
         UNCHANGED cacheVars]_vars

\* the tokens that stand for a branch in an argument
Shortcuts == {"@", "-"}

\* C26 (as claimed): the cache never holds a shortcut token, and no marker
\* command of a debounced update is issued with a shortcut token as its branch.
C26_NoShortcutCached ==
  /\ currentBranch \notin Shortcuts
  /\ lastKnownBranch \notin Shortcuts
  /\ \A u \in updates : u.fate = "invoked" => u.target \notin Shortcuts

\* C27: currentBranch and lastKnownBranch hold the same value whenever no
\* callback is running, that is in every state between two steps: at every
\* await of a tool call, an update, the poller or the initialization.
C27_CacheFieldsEqual == lastKnownBranch = currentBranch

\* the updater has moved the cache to the branch checked out while a tool
\* call and a run of the poller await their answers
C27_Witness ==
  /\ currentBranch = "feat/x"
  /\ lastKnownBranch = "feat/x"
  /\ \E u \in updates : u.fate = "invoked" /\ u.target = "feat/x"
  /\ branchCheckInterval # NULL
  /\ polls
  /\ call.pc = "cmd"

\* C28: a call of worktrunk-switch, worktrunk-create or worktrunk-remove
\* whose `wt` command fails changes neither the cache nor the debounce
\* timers: each step of the call up to and including the one that takes the
\* failure leaves the cache, the pending timeout, the recorded status changes
\* and the marker commands in flight as they are.
C28_FailureLeavesState ==
  [][(/\ call' # call
      /\ call'.tool \in {"switch", "create", "remove"}
      /\ call'.pc \in {"version", "cmd"} \/ call'.cok = "failed")
       => UNCHANGED <<cacheVars, statusTimer, timers, updates, nupd, markers>>]_vars

\* `wt remove` of the cached branch has failed while an update is pending
C28_Witness ==
  /\ call.tool = "remove"
  /\ call.pc = "done"
  /\ call.cok = "failed"
  /\ call.args.branch = currentBranch
  /\ \E t \in timers : t.id = statusTimer /\ t.remaining > 0

\* the call names the branch whose marker it sets
ExplicitBranch(args) == args.branch \notin {NULL, "", "@"}

\* the marker command the claim expects for the arguments and a branch
ClaimedUpdateCmd(args, branch) ==
  <<"wt", "config", "state", "marker", "set",
    IF args.marker = NULL THEN "" ELSE args.marker, "--branch", branch>>

UpdateCallInFlight ==
  call.tool = "status-update" /\ call.pc \in {"version", "git", "cmd"}

\* C30 (as claimed): an update that is pending when worktrunk-status-update is
\* called fires after the call: while the call is in flight the pending
\* timeout neither runs nor is cleared, so its marker command is issued
\* after that of the call.
C30_Original ==
  [][UpdateCallInFlight =>
       \A t \in timers : \E s \in timers' : s.id = t.id]_vars

\* C30: worktrunk-status-update neither cancels nor reschedules the pending
\* update.  From the start of the call to its return the handle of the
\* pending timeout is kept, no recorded status change becomes cancelled, and
\* a pending timeout either stays pending with its marker or, being due,
\* runs and starts its own setStatusMarker with that marker, which may
\* happen while the call is still in flight.
C30_UpdateSurvivesCall ==
  [][(call.tool = "status-update" \/ call'.tool = "status-update") =>
       /\ statusTimer' = statusTimer
       /\ nupd' = nupd
       /\ \A t \in timers :
            \/ \E s \in timers' : s.id = t.id /\ s.marker = t.marker
            \/ /\ t.remaining = 0
               /\ \E m \in markers' : m.id = t.id /\ m.marker = t.marker /\ m.pc = "git"
       /\ \A u \in updates : \A w \in updates' :
            (w.id = u.id /\ u.fate # "cancelled") => w.fate # "cancelled"]_vars

\* the call has set a marker by itself and the update scheduled by the
\* earlier switch is still pending
C30_Witness ==
  /\ call.tool = "status-update"
  /\ call.pc = "done"
  /\ call.cok = "ok"
  /\ \E t \in timers : t.id = statusTimer /\ t.marker = WaitMarker /\ t.remaining > 0
  /\ \E u \in updates : u.id = statusTimer /\ u.fate = "pending"

\* the step in which a switch or a create that worked produces its result
SwitchedOrCreated ==
  /\ call.pc \in {"cmd", "git"}
  /\ call'.pc = "done"
  /\ call'.tool \in {"switch", "create"}
  /\ call'.cok = "ok"

\* C31: the step in which a worktrunk-switch or worktrunk-create succeeds
\* schedules a new timeout of the full debounce delay that carries the wait
\* marker, and that timeout is the only one left: every update that was
\* pending is cancelled.  No step of a worktrunk-remove call schedules or
\* cancels an update, and while a remove call is in flight an update that
\* is pending stays pending until its timeout runs setStatusMarker.
C31_SwitchCreateScheduleRemoveKeeps ==
  [][/\ SwitchedOrCreated =>
          /\ nupd' = nupd + 1
          /\ statusTimer' = nupd'
          /\ timers' = {[id |-> nupd', marker |-> WaitMarker,
                         remaining |-> DebounceDelay]}
          /\ \A u \in updates : \A w \in updates' :
               (u.fate = "pending" /\ w.id = u.id) => w.fate = "cancelled"
     /\ (call' # call /\ "remove" \in {call.tool, call'.tool}) =>
          UNCHANGED <<statusTimer, timers, updates, nupd>>
     /\ call.tool = "remove" =>
          /\ \A t \in timers :
               \/ \E s \in timers' : s.id = t.id /\ s.marker = t.marker
               \/ \E m \in markers' : m.id = t.id /\ m.marker = t.marker /\ m.pc = "git"
          /\ \A s \in timers' : \E t \in timers : t.id = s.id
          /\ \A w \in updates' : w.fate # "cancelled" \/ w \in updates]_vars

\* a remove has worked while the update scheduled by the call before it is
\* still pending
C31_Witness ==
  /\ call.tool = "remove" /\ call.pc = "done" /\ call.cok = "ok"
  /\ \E t \in timers :
       /\ t.id = statusTimer /\ t.marker = WaitMarker /\ t.remaining > 0
       /\ \E u \in updates : u.id = t.id /\ u.fate = "pending"

ShortcutSwitch == call.tool = "switch" /\ call.args.branch \in Shortcuts

\* C32: a worktrunk-switch with "@" or "-" issues `wt switch` with the token
\* as it was given; when that command has succeeded the call asks git for
\* the branch, and the step that has the answer sets both cache variables
\* to the branch git reports, or to null when git reports none, and in
\* both cases returns the text that begins with "Switched to branch: "
\* followed by the token.  No validation or translation of the token and no
\* other command takes place.
C32_ShortcutSwitch ==
  [][ShortcutSwitch =>
       /\ (call.pc = "version" /\ call'.pc = "cmd") =>
            LastCmd(call') = <<"wt", "switch", call.args.branch>>
       /\ (call.pc = "cmd" /\ call'.cok = "ok") =>
            /\ call'.pc = "git"
            /\ LastCmd(call') = GitCmd
            /\ UNCHANGED cacheVars
       /\ (call.pc = "git" /\ call' # call) =>
            /\ currentBranch' = gitHead
            /\ lastKnownBranch' = gitHead
            /\ call'.pc = "done"
            /\ SubSeq(call'.res, 1, 2) = <<"Switched to branch: ", call.args.branch>>
            /\ call'.cmds = <<VersionCmd, <<"wt", "switch", call.args.branch>>, GitCmd>>]_vars

\* a switch to the previous worktree has succeeded while git reports no
\* branch: the cache is empty and the call returns its success text
C32_Witness ==
  /\ call.tool = "switch" /\ call.args.branch = "-"
  /\ call.pc = "done" /\ call.cok = "ok"
  /\ gitHead = NULL /\ currentBranch = NULL /\ lastKnownBranch = NULL
  /\ call.res = <<"Switched to branch: ", "-", "\n">>
  /\ statusTimer = 2

\* C33: a worktrunk-status call that has passed the installation check asks
\* git for the branch, and the step that has the answer sets both cache
\* variables to the branch git reports, or to null when git reports none.
\* With no branch reported the call ends there with the text that begins
\* "Not in a git repository or no branch detected." and has issued no `wt
\* list`; otherwise it issues `wt list --branch` for the reported branch.
\* The step that has the answer of `wt list` leaves the cache as it is,
\* whether the command succeeded or failed.
C33_StatusRefreshesCache ==
  [][call.tool = "status" =>
       /\ (call.pc = "version" /\ call'.vok = "ok") =>
            /\ call'.pc = "git" /\ LastCmd(call') = GitCmd
            /\ UNCHANGED cacheVars
       /\ (call.pc = "git" /\ call' # call) =>
            /\ currentBranch' = gitHead
            /\ lastKnownBranch' = gitHead
            /\ IF gitHead = NULL
               THEN /\ call'.pc = "done"
                    /\ Head(call'.res) = "Not in a git repository or no branch detected."
                    /\ call'.cmds = <<VersionCmd, GitCmd>>
               ELSE /\ call'.pc = "cmd"
                    /\ LastCmd(call') = <<"wt", "list", "--branch", gitHead>>
       /\ (call.pc = "cmd" /\ call' # call) =>
            /\ call'.pc = "done"
            /\ UNCHANGED cacheVars
            /\ call'.cok = "failed" => Head(call'.res) = "Error"]_vars

\* the cache held main when an update ran; a status call then found feat/x
\* checked out, and its `wt list` has failed: the cache holds feat/x
C33_Witness ==
  /\ call.tool = "status" /\ call.pc = "done" /\ call.cok = "failed"
  /\ call.val = "feat/x" /\ currentBranch = "feat/x" /\ lastKnownBranch = "feat/x"
  /\ \E u \in updates : u.fate = "invoked" /\ u.target = "main"

\* C34: when the resolution made by the initialization reports no branch,
\* the initialization ends without an interval; once the initialization has
\* ended no step creates an interval, whatever it writes to the cache; and
\* without an interval no run of checkBranchChange ever starts.
C34_NoPollerWithoutInitialBranch ==
  [][/\ (init = "git" /\ init' = "done" /\ gitHead = NULL) =>
          (branchCheckInterval' = NULL /\ nIntervals' = 0)
     /\ init = "done" => UNCHANGED <<branchCheckInterval, nIntervals>>
     /\ branchCheckInterval' = NULL => ~polls']_vars

\* the initialization found no branch; a switch has since put main in the
\* cache and its update has set a marker; there is no poller
C34_Witness ==
  /\ init = "done" /\ branchCheckInterval = NULL /\ nIntervals = 0
  /\ currentBranch = "main"
  /\ call.tool = "switch" /\ call.pc = "done"
  /\ \E u \in updates : u.fate = "invoked" /\ u.target = "main"

\* the event types the claim names as handled
ClaimedHandledTypes ==
  {"session.status", "session.created", "session.idle", "session.error"}

\* C35: the event hook applied to an event of any other type leaves
\* everything as it was: the pending timeouts and statusTimer, the record of
\* updates, the cache, and every run that awaits an external invocation
\* (none is started, none proceeds).
C35_UnhandledEventChangesNothing ==
  [][\A type \in EventTypes \ ClaimedHandledTypes :
       EventOf(type, NULL) =>
         UNCHANGED <<cacheVars, statusTimer, timers, updates, nupd, lastBurst,
                     sinceLast, markers, polls, init, call, branchCheckInterval,
                     nIntervals>>]_vars

\* two events were delivered and only one of them called updateStatus; its
\* update is pending with its full delay
C35_Witness ==
  /\ nevents = 2 /\ nupd = 1 /\ statusTimer = 1
  /\ timers = {[id |-> 1, marker |-> WorkMarker, remaining |-> DebounceDelay]}
  /\ \E u \in updates : u.id = 1 /\ u.fate = "pending"

\* a step of a worktrunk-list or worktrunk-default-branch call
ReadOnlyCallStep ==
  /\ call' # call
  /\ \/ call.tool \in {"list", "default-branch"}
     \/ call'.tool \in {"list", "default-branch"}

\* C36: no step of a worktrunk-list or worktrunk-default-branch call, from
\* its start to its return and whether its commands succeed or fail,
\* changes the cache, statusTimer, the pending timeouts or the record of
\* updates.
C36_ListAndDefaultBranchReadOnly ==
  [][ReadOnlyCallStep =>
       UNCHANGED <<cacheVars, statusTimer, timers, updates, nupd, lastBurst,
                   sinceLast>>]_vars

\* a default-branch call has succeeded while the update scheduled by the
\* call before it is pending and the cache holds feat/x
C36_Witness ==
  /\ call.tool = "default-branch" /\ call.pc = "done" /\ call.cok = "ok"
  /\ call.res = <<"main">>
  /\ currentBranch = "feat/x" /\ lastKnownBranch = "feat/x"
  /\ \E t \in timers : t.id = statusTimer /\ t.remaining > 0

\* the tool call awaits an external invocation
Awaiting == call.pc \in {"version", "cmd", "git"}

\* C37: with every external invocation a tool call awaits completing, a
\* call that awaits one produces its result, which then reaches the host.
\* Nothing but the completion of the awaited invocation moves the call on:
\* time passing, the debounce timeout and the poller leave it where it is,
\* so a call whose invocation never completes stays at its await for ever.
\* While a call awaits, the event hook can run, a due debounce timeout can
\* run setStatusMarker, the clock can advance, and the poller can start a
\* run and have git answer it.
C37_ReturnsOnlyWhenAnswered ==
  /\ Awaiting ~> (call.pc = "done")
  /\ (call.pc = "done") ~> (call.pc = "idle")
  /\ [][(Awaiting /\ call' # call) => CallProgress]_vars
  /\ [](Awaiting =>
          /\ ~Busy => ENABLED Event
          /\ Due => ENABLED DebounceFire
          /\ (~Busy /\ timers # {}) => ENABLED Tick
          /\ (~Busy /\ branchCheckInterval # NULL) => ENABLED PollTick
          /\ (~Busy /\ polls) => ENABLED PollAfterGit)

\* the second call awaits its `wt` command while the update scheduled by
\* the first call runs setStatusMarker and a run of the poller awaits git
C37_Witness ==
  /\ ntools = 2 /\ call.pc = "cmd"
  /\ polls
  /\ \E m \in markers : m.id = statusTimer /\ m.pc = "git"
====
